---- MODULE Spec2Model ----
(***************************************************************************)
(* The users CRUD service of src/main.rs: five actix-web handlers over one  *)
(* table users(id, name, email).  A SQL statement is atomic: it takes       *)
(* effect and returns Ok, or fails with Err and no effect.  get_users,      *)
(* get_user, create_user and delete_user run one statement each and are one *)
(* action each; update_user runs a SELECT and then an UPDATE, so it is two  *)
(* actions, and between them the request is pending in a slot while other   *)
(* requests run.  What a handler computes after its last statement reads    *)
(* only its own locals, so it belongs to the action of that statement; the  *)
(* response it produces stays in `last` until send_response.                *)
(***************************************************************************)
EXTENDS Naturals, FiniteSets

\* ------------------------------------------------------------------ bounds
NumProcs == 2       \* update_user requests pending between SELECT and UPDATE
NumIds == 2         \* distinct Uuid values
MaxWrites == 3      \* requests accepted that run an INSERT, UPDATE or DELETE

Procs == 1..NumProcs
Ids == 1..NumIds
\* The handlers copy names and emails and never inspect them, so two values
\* of each (the ones of the service's documented scenario and one more email)
\* tell a new value from an old one.
Names == {"Ann", "Annie"}
Emails == {"ann@x.com", "annie@x.com"}

\* ------------------------------------------------------------ Option<T>
None == {}
Some(x) == {x}
Opt(S) == {None} \cup {Some(x) : x \in S}
IsSome(o) == o # None
Unwrap(o) == CHOOSE x \in o : TRUE
UnwrapOr(o, d) == IF IsSome(o) THEN Unwrap(o) ELSE d

\* ----------------------------------------------------------- struct User
User(id, name, email) == [id |-> id, name |-> name, email |-> email]
Users == [id : Ids, name : Names, email : Emails]

\* ------------------------------------------------- the SQL statements
\* A statement's result: Err, or Ok with the rows fetched / the rows affected.
Err == [ok |-> FALSE, rows |-> {}, affected |-> 0]
OkRows(rs) == [ok |-> TRUE, rows |-> rs, affected |-> 0]
OkAffected(n) == [ok |-> TRUE, rows |-> {}, affected |-> n]

\* SELECT * FROM users
SelectAll(t) == t
\* SELECT * FROM users WHERE id = $1
SelectById(t, id) == {r \in t : r.id = id}
\* fetch_optional: no row, or one of the rows the query matched
FetchOptional(rs) == IF rs = {} THEN {None} ELSE {Some(r) : r \in rs}
\* (variant: name and email bound to each other's placeholder)
InsertRowSwapped(t, id, name, email) == t \cup {User(id, email, name)}
\* INSERT INTO users (id, name, email) VALUES ($1, $2, $3)
InsertRow(t, id, name, email) == t \cup {User(id, name, email)}
\* (variant: an upsert, which inserts the row when no row has the id)
UpdateRowsUpsert(t, name, email, id) ==
    IF SelectById(t, id) = {} THEN t \cup {User(id, name, email)}
    ELSE {IF r.id = id THEN User(r.id, name, email) ELSE r : r \in t}
\* UPDATE users SET name = $1, email = $2 WHERE id = $3
UpdateRows(t, name, email, id) ==
    {IF r.id = id THEN User(r.id, name, email) ELSE r : r \in t}
\* (variant: the WHERE clause left out)
DeleteRowsAll(t, id) == {}
\* DELETE FROM users WHERE id = $1
DeleteRows(t, id) == {r \in t : r.id # id}
\* rows_affected() of an UPDATE or DELETE with WHERE id = $n
RowsAffected(t, id) == Cardinality(SelectById(t, id))

\* ----------------------------------------------------------- responses
NoBody == [kind |-> "none", text |-> "", val |-> {}]
Text(s) == [kind |-> "text", text |-> s, val |-> {}]
JsonUser(u) == [kind |-> "object", text |-> "", val |-> {u}]
JsonUsers(us) == [kind |-> "array", text |-> "", val |-> us]
Response(st, b) == [status |-> st, body |-> b]
NoResp == Response(0, NoBody)

\* ------------------------------------------------------------- requests
\* update_user's local variables while it awaits its UPDATE (lines 76-85)
NoLocal == [id |-> None, name |-> None, email |-> None, old_user |-> None,
            new_name |-> None, new_email |-> None]
\* what a pending update_user has overlapped with
NoObs == [delBetween |-> FALSE, peers |-> {}]
\* the request the last step completed: its inputs, whether a statement of
\* it failed, the table before its last statement, and its response
NoLast == [op |-> "none", id |-> None, name |-> None, email |-> None,
           failed |-> FALSE, affected |-> 0, table |-> {}, old_user |-> None,
           resp |-> NoResp, obs |-> NoObs]

VARIABLES
    users,      \* the users table: a set of rows
    pc,         \* pc[p]: "idle", or "update_user_if" while slot p holds a pending update_user
    local,      \* local[p]: the pending update_user's local variables
    issued,     \* history: the ids Uuid::new_v4 has returned
    created,    \* history: created[i] = the User a 201 returned, until an UPDATE or DELETE of i
    delOk,      \* history: delOk[i] = number of 200 answers of delete_user on i (capped)
    obs,        \* history: obs[p] = what the pending update_user of slot p overlapped with
    last,       \* history: the request the last step completed, with its response
    accepted    \* the number of writing requests accepted so far

vars == <<users, pc, local, issued, created, delOk, obs, last, accepted>>

\* The state once main has connected the pool, run the migrations and bound
\* the server: an empty table and no request in flight.
Init ==
    /\ users = {}
    /\ pc = [p \in Procs |-> "idle"]
    /\ local = [p \in Procs |-> NoLocal]
    /\ issued = {}
    /\ created = [i \in Ids |-> None]
    /\ delOk = [i \in Ids |-> 0]
    /\ obs = [p \in Procs |-> NoObs]
    /\ last = NoLast
    /\ accepted = 0

\* the server accepts a request that will write (create_user, delete_user,
\* update_user once its SELECT has found the row)
Accept ==
    /\ last = NoLast
    /\ accepted < MaxWrites
    /\ accepted' = accepted + 1

\* ------------------------------------------------------ history helpers
\* the slots other than p that hold a pending update_user of id i
PendingOn(p, i) == {q \in Procs \ {p} : pc[q] = "update_user_if" /\ local[q].id = Some(i)}
\* a delete_user has removed the row of id i: every pending update_user of i
\* has read a row that is gone
Removed(i, removed) ==
    [q \in Procs |->
        IF removed /\ pc[q] = "update_user_if" /\ local[q].id = Some(i)
        THEN [obs[q] EXCEPT !.delBetween = TRUE]
        ELSE obs[q]]
\* an UPDATE or DELETE of id i has run: the row is no longer the one created
Touch(ok, i) == created' = IF ok THEN [created EXCEPT ![i] = None] ELSE created

\* --------------------------------------------------- GET /users (28-37)
get_users_response(result) ==
    IF result.ok THEN Response(200, JsonUsers(result.rows))
    ELSE Response(500, Text("Failed to fetch users"))

get_users ==
    /\ last = NoLast
    /\ \E result \in {Err, OkRows(SelectAll(users))} :
          last' = [NoLast EXCEPT !.op = "get_users", !.failed = ~result.ok,
                                 !.table = users,
                                 !.resp = get_users_response(result)]
    /\ UNCHANGED <<users, pc, local, issued, created, delOk, obs, accepted>>

\* ---------------------------------------------- GET /users/{id} (40-52)
\* (variant: a missing row reported as a server error)
get_user_response_strict(result) ==
    IF result.ok /\ IsSome(result.rows) THEN Response(200, JsonUser(Unwrap(result.rows)))
    ELSE Response(500, Text("Error fetching user"))
get_user_response(result) ==
    IF result.ok /\ IsSome(result.rows) THEN Response(200, JsonUser(Unwrap(result.rows)))
    ELSE IF result.ok THEN Response(404, Text("User not found"))
    ELSE Response(500, Text("Error fetching user"))

get_user ==
    /\ last = NoLast
    /\ \E id \in Ids :
       \E result \in {Err} \cup {OkRows(o) : o \in FetchOptional(SelectById(users, id))} :
          /\ last' = [NoLast EXCEPT !.op = "get_user", !.id = Some(id),
                                    !.failed = ~result.ok,
                                    !.table = users,
                                    !.resp = get_user_response(result)]
    /\ UNCHANGED <<users, pc, local, issued, created, delOk, obs, accepted>>

\* --------------------------------------------------- POST /users (55-72)
\* (variant: a generator that can repeat a value)
new_v4_any == Ids
\* Uuid::new_v4(): a random 122-bit value, modelled as a value not returned
\* before; ids are only compared for equality, so the least unused one stands
\* for any of them
new_v4 == {i \in Ids \ issued : \A j \in Ids \ issued : i <= j}

create_user_response(result, id, name, email) ==
    IF result.ok THEN Response(201, JsonUser(User(id, name, email)))
    ELSE Response(500, Text("Failed to insert user"))

create_user ==
    /\ Accept
    /\ \E name \in Names, email \in Emails, id \in new_v4, ok \in BOOLEAN :
       LET result == IF ok THEN OkAffected(1) ELSE Err
           r == create_user_response(result, id, name, email)
       IN /\ issued' = issued \cup {id}
          /\ users' = IF ok THEN InsertRow(users, id, name, email) ELSE users
          /\ created' = IF r.status = 201 THEN [created EXCEPT ![id] = r.body.val]
                        ELSE created
          /\ last' = [NoLast EXCEPT !.op = "create_user", !.id = Some(id),
                                    !.name = Some(name), !.email = Some(email),
                                    !.failed = ~ok, !.affected = result.affected,
                                    !.table = users,
                                    !.resp = r]
    /\ UNCHANGED <<pc, local, delOk, obs>>

\* ---------------------------------------------- PUT /users/{id} (75-105)
\* if let Ok(Some(old_user)) = existing
existing_is_some(existing) == existing.ok /\ IsSome(existing.rows)
\* (variants: the supplied field dropped)
new_name_kept(user_name, old_user) == old_user.name
new_email_kept(user_email, old_user) == old_user.email
new_name(user_name, old_user) == UnwrapOr(user_name, old_user.name)
new_email(user_email, old_user) == UnwrapOr(user_email, old_user.email)

\* (variant: rows_affected tested, as delete_user does)
update_user_response_checked(result, id, name, email) ==
    IF result.ok /\ result.affected > 0 THEN Response(200, JsonUser(User(id, name, email)))
    ELSE IF result.ok THEN Response(404, Text("User not found"))
    ELSE Response(500, Text("Failed to update user"))
update_user_response(result, id, name, email) ==
    IF result.ok THEN Response(200, JsonUser(User(id, name, email)))
    ELSE Response(500, Text("Failed to update user"))

\* lines 76-85: the SELECT found a row; the request awaits its UPDATE in slot p
update_user_select(p) ==
    /\ Accept
    /\ pc[p] = "idle"
    /\ \A q \in Procs : q < p => pc[q] # "idle"
    /\ \E id \in Ids, name \in Opt(Names), email \in Opt(Emails) :
       \E existing \in {Err} \cup {OkRows(o) : o \in FetchOptional(SelectById(users, id))} :
          /\ existing_is_some(existing)
          /\ LET old_user == Unwrap(existing.rows)
             IN local' = [local EXCEPT ![p] =
                            [id |-> Some(id), name |-> name, email |-> email,
                             old_user |-> Some(old_user),
                             new_name |-> Some(new_name(name, old_user)),
                             new_email |-> Some(new_email(email, old_user))]]
    /\ pc' = [pc EXCEPT ![p] = "update_user_if"]
    /\ UNCHANGED <<users, issued, created, delOk, obs, last>>

\* lines 76-83, 102-104: the SELECT failed or found no row
update_user_else ==
    /\ last = NoLast
    /\ \E id \in Ids :
       \E existing \in {Err} \cup {OkRows(o) : o \in FetchOptional(SelectById(users, id))} :
          /\ ~existing_is_some(existing)
          /\ last' = [NoLast EXCEPT !.op = "update_user", !.id = Some(id),
                                    !.failed = ~existing.ok,
                                    !.table = users,
                                    !.resp = Response(404, Text("User not found"))]
    /\ UNCHANGED <<users, pc, local, issued, created, delOk, obs, accepted>>

\* lines 87-101: the UPDATE and the response
update_user_execute(p) ==
    /\ last = NoLast
    /\ pc[p] = "update_user_if"
    /\ LET id == Unwrap(local[p].id)
           n == Unwrap(local[p].new_name)
           e == Unwrap(local[p].new_email)
       IN \E ok \in BOOLEAN :
          LET result == IF ok THEN OkAffected(RowsAffected(users, id)) ELSE Err
              r == update_user_response(result, id, n, e)
              me == [name |-> local[p].name, email |-> local[p].email,
                     old_user |-> local[p].old_user]
          IN /\ users' = IF ok THEN UpdateRows(users, n, e, id) ELSE users
             /\ Touch(ok, id)
             /\ last' = [NoLast EXCEPT !.op = "update_user", !.id = Some(id),
                                       !.name = local[p].name, !.email = local[p].email,
                                       !.failed = ~ok, !.affected = result.affected,
                                       !.table = users,
                                       !.old_user = local[p].old_user,
                                       !.resp = r, !.obs = obs[p]]
             /\ obs' = [q \in Procs |->
                          IF q = p THEN NoObs
                          ELSE IF ok /\ q \in PendingOn(p, id)
                          THEN [obs[q] EXCEPT !.peers = @ \cup {me}]
                          ELSE obs[q]]
    /\ pc' = [pc EXCEPT ![p] = "idle"]
    /\ local' = [local EXCEPT ![p] = NoLocal]
    /\ UNCHANGED <<issued, delOk, accepted>>

\* ------------------------------------------- DELETE /users/{id} (108-120)
\* (variant: rows_affected not tested)
delete_user_response_any(result) ==
    IF result.ok THEN Response(200, Text("User deleted"))
    ELSE Response(500, Text("Failed to delete user"))
delete_user_response(result) ==
    IF result.ok /\ result.affected > 0 THEN Response(200, Text("User deleted"))
    ELSE IF result.ok THEN Response(404, Text("User not found"))
    ELSE Response(500, Text("Failed to delete user"))

delete_user ==
    /\ Accept
    /\ \E id \in Ids, ok \in BOOLEAN :
       LET result == IF ok THEN OkAffected(RowsAffected(users, id)) ELSE Err
           r == delete_user_response(result)
       IN /\ users' = IF ok THEN DeleteRows(users, id) ELSE users
          /\ Touch(ok, id)
          /\ delOk' = IF r.status = 200 /\ delOk[id] < 2
                      THEN [delOk EXCEPT ![id] = @ + 1]
                      ELSE delOk
          /\ last' = [NoLast EXCEPT !.op = "delete_user", !.id = Some(id),
                                    !.failed = ~ok, !.affected = result.affected,
                                    !.table = users,
                                    !.resp = r]
          /\ obs' = Removed(id, ok /\ result.affected > 0)
    /\ UNCHANGED <<pc, local, issued>>

\* ------------------------------------------------- the server (131-142)
\* the response of the request just handled is written to its connection
send_response ==
    /\ last # NoLast
    /\ last' = NoLast
    /\ UNCHANGED <<users, pc, local, issued, created, delOk, obs, accepted>>

UpdateUserSelect == \E p \in Procs : update_user_select(p)
UpdateUserExecute == \E p \in Procs : update_user_execute(p)

Next ==
    \/ get_users
    \/ get_user
    \/ create_user
    \/ UpdateUserSelect
    \/ update_user_else
    \/ UpdateUserExecute
    \/ delete_user
    \/ send_response

Spec == Init /\ [][Next]_vars

\* ================================================================ claims
\* the rows of id i now, and before the last statement of the request just handled
RowOf(i) == SelectById(users, i)
Before(i) == SelectById(last.table, i)
IdsOf(t) == {r.id : r \in t}
Handled(op) == last.op = op
LastId == Unwrap(last.id)
\* the row PUT /users/{id} is specified to leave, by the fields the body supplies
Expected(id, name, email, old) ==
    IF IsSome(name) /\ ~IsSome(email) THEN User(id, Unwrap(name), old.email)
    ELSE IF ~IsSome(name) /\ IsSome(email) THEN User(id, old.name, Unwrap(email))
    ELSE IF IsSome(name) /\ IsSome(email) THEN User(id, Unwrap(name), Unwrap(email))
    ELSE User(id, old.name, old.email)
\* the request just handled is an update_user whose SELECT found a row
Updated == Handled("update_user") /\ IsSome(last.old_user)
LastExpected == Expected(LastId, last.name, last.email, Unwrap(last.old_user))

\* C1: a create_user that answers 201 returns the User made of a new id and the
\* submitted name and email, and a get_user of that id, with no UPDATE or
\* DELETE of the id since, answers 200 with that same User (500 if and only
\* if its SELECT itself fails).
C1_CreateThenGet ==
    /\ (Handled("create_user") /\ last.resp.status = 201) =>
          /\ last.resp.body = JsonUser(User(LastId, Unwrap(last.name), Unwrap(last.email)))
          /\ created[LastId] = last.resp.body.val
          /\ Before(LastId) = {}
    /\ (Handled("get_user") /\ IsSome(created[LastId])) =>
          /\ ~last.failed => last.resp = Response(200, JsonUser(Unwrap(created[LastId])))
          /\ last.failed <=> last.resp.status = 500
C1_Witness ==
    /\ Handled("get_user") /\ ~last.failed /\ IsSome(created[LastId])
    /\ last.resp.status = 200

\* C2: an update_user that read the row (id, n, e), during which no other
\* request changed that row, answers 200 and leaves the returned User and the
\* stored row equal to the row with exactly the supplied fields replaced
\* (500 and the row as read if and only if its UPDATE itself fails).
C2_PartialUpdate ==
    (Updated /\ ~last.obs.delBetween /\ last.obs.peers = {}) =>
        /\ ~last.failed => /\ last.resp = Response(200, JsonUser(LastExpected))
                           /\ RowOf(LastId) = {LastExpected}
        /\ last.failed => /\ last.resp.status = 500
                          /\ RowOf(LastId) = last.old_user
C2_Witness ==
    /\ Updated /\ ~last.failed /\ ~last.obs.delBetween /\ last.obs.peers = {}
    /\ IsSome(last.name) /\ ~IsSome(last.email)
    /\ Unwrap(last.name) # Unwrap(last.old_user).name
    /\ RowOf(LastId) = {LastExpected}

\* C3: in every handler a failed database call yields 500, and update_user
\* answers 404 only when its SELECT succeeded and found no row.
C3_FailureIs500 ==
    /\ last.failed => last.resp.status = 500
    /\ (Handled("update_user") /\ last.resp.status = 404) =>
          (~last.failed /\ Before(LastId) = {})

\* C4: delete_user answers 200 exactly when its DELETE removed a row and 404
\* exactly when it ran and matched none, and no id gets two 200 answers from
\* delete_user.
C4_DeleteOnce ==
    /\ \A i \in Ids : delOk[i] <= 1
    /\ Handled("delete_user") =>
          /\ last.resp.status = 200 <=> (Before(LastId) # {} /\ RowOf(LastId) = {})
          /\ last.resp.status = 404 <=> (~last.failed /\ Before(LastId) = {})
          /\ ~last.failed => RowOf(LastId) = {}
C4_Witness ==
    /\ Handled("delete_user") /\ ~last.failed
    /\ delOk[LastId] = 1 /\ last.resp.status = 404

\* C5: once delete_user has answered 200 for an id, no get_user of that id
\* answers 200: it answers 404 (500 if and only if its SELECT itself fails),
\* also after an update_user of the id that was pending across the delete has
\* run its UPDATE.
C5_DeletedStaysGone ==
    (Handled("get_user") /\ delOk[LastId] > 0) =>
        /\ ~last.failed => last.resp = Response(404, Text("User not found"))
        /\ last.failed <=> last.resp.status = 500
        /\ last.resp.status # 200
C5_Witness ==
    /\ Handled("get_user") /\ ~last.failed /\ delOk[LastId] > 0
    /\ last.resp.status = 404
    /\ \E p \in Procs : /\ pc[p] = "update_user_if" /\ local[p].id = last.id
                        /\ obs[p].delBetween

\* C6: get_user of an id no create_user has generated answers 404 when its
\* SELECT succeeds (the missing row is not an error and not a 200), and 500
\* only when the SELECT itself failed.
C6_UnknownIs404 ==
    (Handled("get_user") /\ LastId \notin issued) =>
        /\ ~last.failed => last.resp = Response(404, Text("User not found"))
        /\ last.resp.status = 500 <=> last.failed
        /\ last.resp.status # 200
C6_Witness ==
    /\ Handled("get_user") /\ LastId \notin issued /\ ~last.failed
    /\ last.resp.status = 404
    /\ users # {}

\* C7: each id identifies at most one row, every row has an id, a name and an
\* email, and no request changes the id of a row: an update_user leaves each
\* id with as many rows as before and writes only the row of its path id.
C7_RowsWellFormed ==
    /\ \A r1, r2 \in users : r1.id = r2.id => r1 = r2
    /\ users \subseteq Users
    /\ Handled("update_user") =>
          /\ \A i \in Ids : Cardinality(RowOf(i)) = Cardinality(Before(i))
          /\ \A i \in Ids \ {LastId} : RowOf(i) = Before(i)
C7_Witness ==
    /\ Updated /\ ~last.failed
    /\ Cardinality(users) = 2
    /\ RowOf(LastId) # Before(LastId)

\* C8: when a delete_user removed the row between an update_user's SELECT and
\* its UPDATE, the UPDATE succeeds on zero rows, update_user still answers 200
\* with the merged User, and the table holds no row of that id.
C8_UpdateAfterDelete ==
    (Updated /\ ~last.failed /\ last.obs.delBetween) =>
        /\ last.affected = 0
        /\ last.resp = Response(200, JsonUser(LastExpected))
        /\ RowOf(LastId) = {}
C8_Witness ==
    /\ Updated /\ ~last.failed /\ last.obs.delBetween
    /\ last.resp.status = 200 /\ RowOf(LastId) = {}

\* C9: of two update_user requests that both read the row (id, n, e) before
\* either wrote, one supplying only a name n' # n and the other only an email
\* e' # e, both answer 200 and the row left by the second is the second's
\* merge over its stale read, which is not (id, n', e').
NameOnly(r) == IsSome(r.name) /\ ~IsSome(r.email)
EmailOnly(r) == ~IsSome(r.name) /\ IsSome(r.email)
LostUpdateCase(first) ==
    /\ Updated /\ ~last.failed /\ ~last.obs.delBetween
    /\ last.obs.peers = {first}
    /\ first.old_user = last.old_user
    /\ \/ NameOnly(first) /\ EmailOnly(last)
       \/ EmailOnly(first) /\ NameOnly(last)
    /\ \A r \in {first, last} :
          /\ IsSome(r.name) => Unwrap(r.name) # Unwrap(last.old_user).name
          /\ IsSome(r.email) => Unwrap(r.email) # Unwrap(last.old_user).email
C9_LostUpdate ==
    \A first \in last.obs.peers :
        LostUpdateCase(first) =>
            LET n == Unwrap(IF NameOnly(first) THEN first.name ELSE last.name)
                e == Unwrap(IF EmailOnly(first) THEN first.email ELSE last.email)
            IN /\ last.resp.status = 200
               /\ RowOf(LastId) = {LastExpected}
               /\ RowOf(LastId) # {User(LastId, n, e)}
C9_Witness ==
    \E first \in last.obs.peers :
        /\ LostUpdateCase(first)
        /\ last.resp.status = 200
        /\ NameOnly(first) /\ EmailOnly(last)
        /\ RowOf(LastId) = {User(LastId, Unwrap(last.old_user).name, Unwrap(last.email))}

\* C10: a step changes the set of ids in the table only when a create_user
\* answers 201, adding exactly its new id, or a delete_user answers 200,
\* removing exactly its path id; get_users, get_user, update_user and every
\* request answering 404 or 500 leave the set as it was, and a request with a
\* path id leaves the rows of every other id as they were.
FrameStep ==
    LET st == last'.resp.status
        id == Unwrap(last'.id)
    IN /\ IdsOf(users') # IdsOf(users) =>
             \/ /\ last'.op = "create_user" /\ st = 201
                /\ id \notin IdsOf(users)
                /\ IdsOf(users') = IdsOf(users) \cup {id}
             \/ /\ last'.op = "delete_user" /\ st = 200
                /\ id \in IdsOf(users)
                /\ IdsOf(users') = IdsOf(users) \ {id}
       /\ (last'.op = "create_user" /\ st = 201) =>
             (id \notin IdsOf(users) /\ IdsOf(users') = IdsOf(users) \cup {id})
       /\ (last'.op = "delete_user" /\ st = 200) =>
             (id \in IdsOf(users) /\ IdsOf(users') = IdsOf(users) \ {id})
       /\ last'.op \in {"none", "get_users", "get_user"} => users' = users
       /\ st \in {404, 500} => users' = users
       /\ last'.op = "update_user" => IdsOf(users') = IdsOf(users)
       /\ last'.op \in {"get_user", "update_user", "delete_user"} =>
             \A i \in Ids \ {id} : SelectById(users', i) = SelectById(users, i)
C10_Frame == [][FrameStep]_vars
C10_Witness ==
    /\ Handled("delete_user") /\ last.resp.status = 200
    /\ users # {}
    /\ IdsOf(users) = IdsOf(last.table) \ {LastId}
    /\ \A i \in Ids \ {LastId} : RowOf(i) = Before(i)

====
